---- MODULE Spec2Model ----
(***************************************************************************)
(* Model of doc/_extensions/external_content.py: the Sphinx extension that *)
(* copies external sources into the Sphinx source directory                *)
(* (sync_contents) and adjusts the paths of included content               *)
(* (adjust_includes).                                                      *)
(*                                                                         *)
(* A text is a sequence of one-character strings.  A path is a sequence of *)
(* components from the root, each component a text; <<>> is "/".  The file *)
(* system is the pair (F, D): F maps the path of every regular file to its *)
(* content and modification time (whole seconds, as distutils reads them   *)
(* with ST_MTIME), D is the set of directories.  There are no symbolic     *)
(* links, and the configured directories are absolute.                     *)
(***************************************************************************)
EXTENDS Integers, Sequences, FiniteSets, TLC

\* ------------------------------------------------------------------ bounds
MaxMtime == 2       \* files start with mtimes up to this, one second past the first build
MaxRuns  == 2       \* builds ("builder-inited" firings) in one behaviour
MaxWs    == 2       \* whitespace characters between "::" and the path argument

\* ------------------------------------------------------------- small helpers
Max(S) == CHOOSE x \in S : \A y \in S : y <= x
Min(S) == CHOOSE x \in S : \A y \in S : x <= y
Last(s) == s[Len(s)]
Front(s) == SubSeq(s, 1, Len(s) - 1)
IsPrefix(p, s) == Len(p) <= Len(s) /\ SubSeq(s, 1, Len(p)) = p
\* The one element of a singleton.  Only({e(x) : x \in {d}}) is e with x
\* bound to the value of d: d is evaluated once, however often e uses x.
Only(S) == CHOOSE x \in S : TRUE
Perms(S) == {f \in [1..Cardinality(S) -> S] : \A a, b \in 1..Cardinality(S) : a # b => f[a] # f[b]}

\* ---------------------------------------------------------------- the regex
\* DEFAULT_DIRECTIVES = ("figure", "image", "include", "literalinclude")
DEFAULT_DIRECTIVES ==
    << <<"f","i","g","u","r","e">>,
       <<"i","m","a","g","e">>,
       <<"i","n","c","l","u","d","e">>,
       <<"l","i","t","e","r","a","l","i","n","c","l","u","d","e">> >>

\* \s of the pattern, over the characters the model's texts use
Whitespace == {" ", "\t", "\n"}
\* The backquote character, written "BQ": a TLA+ string cannot hold it.
Backquote == "BQ"
\* the complement of the class of the captured group: a backquote or a
\* newline ends the captured path
PathStop == {Backquote, "\n"}

HasAt(s, i, w) == i + Len(w) - 1 <= Len(s) /\ \A k \in 1..Len(w) : s[i + k - 1] = w[k]

\* the number of consecutive characters of s from position k on that satisfy
\* "is in chars" (stop = FALSE) or "is not in chars" (stop = TRUE)
RECURSIVE RunLen(_, _, _, _)
RunLen(s, k, chars, stop) ==
    IF k > Len(s) \/ ((s[k] \in chars) = stop) THEN 0
    ELSE 1 + RunLen(s, k + 1, chars, stop)

NoMatch == [ok |-> FALSE, directive |-> <<>>, start |-> 0, gs |-> 0, end |-> 0]

\* One alternative d of the pattern, "\.\. (d)::\s*(group)", tried at position i.  \s* is
\* greedy and gives characters back until the group can take at least one
\* character; the group is greedy.  start..end is the whole match, gs..end
\* the captured path.
MatchWith(s, i, d) ==
    LET head == <<".", ".", " ">> \o d \o <<":", ":">>
        k == i + Len(head)
        w == RunLen(s, k, Whitespace, FALSE)
        J == {j \in 0..w : k + j <= Len(s) /\ s[k + j] \notin PathStop}
    IN IF HasAt(s, i, head) /\ J # {}
       THEN LET gs == k + Max(J)
            IN [ok |-> TRUE, directive |-> d, start |-> i, gs |-> gs,
                end |-> gs + RunLen(s, gs, PathStop, TRUE) - 1]
       ELSE NoMatch

\* the alternation (d1|d2|...): the first alternative, in order, that matches
MatchAt(s, i, directives) ==
    LET oks == {n \in 1..Len(directives) : MatchWith(s, i, directives[n]).ok}
    IN IF oks = {} THEN NoMatch ELSE MatchWith(s, i, directives[Min(oks)])

\* the leftmost non-overlapping matches of the pattern in s from position i on
RECURSIVE finditer(_, _, _)
finditer(s, i, directives) ==
    IF i > Len(s) THEN <<>>
    ELSE Only({IF m.ok THEN <<m>> \o finditer(s, m.end + 1, directives)
               ELSE finditer(s, i + 1, directives) :
               m \in {MatchAt(s, i, directives)}})

\* s with the k-th match and every later one replaced by repl[k], ...; from is
\* the first position of s not yet emitted
RECURSIVE Substitute(_, _, _, _, _)
Substitute(s, ms, repl, k, from) ==
    IF k > Len(ms) THEN SubSeq(s, from, Len(s))
    ELSE SubSeq(s, from, ms[k].start - 1) \o repl[k]
         \o Substitute(s, ms, repl, k + 1, ms[k].end + 1)

\* ------------------------------------------------------------------- paths
\* text.split("/"): the segments of a text between slashes, empty ones kept
RECURSIVE Split(_)
Split(t) ==
    LET n == RunLen(t, 1, {"/"}, TRUE)
    IN IF n = Len(t) THEN <<t>>
       ELSE <<SubSeq(t, 1, n)>> \o Split(SubSeq(t, n + 2, Len(t)))

RECURSIVE Join(_)
Join(parts) ==
    IF parts = <<>> THEN <<>>
    ELSE IF Len(parts) = 1 THEN parts[1]
    ELSE parts[1] \o <<"/">> \o Join(Tail(parts))

\* the parts pathlib keeps of a relative path text: no empty segment, no "."
Parts(t) == SelectSeq(Split(t), LAMBDA c : c # <<>> /\ c # <<".">>)

Parent(path) == IF path = <<>> THEN <<>> ELSE Front(path)
Ancestors(path) == {SubSeq(path, 1, n) : n \in 0..(Len(path) - 1)}

\* PurePath.suffix of the final component
Suffix(path) ==
    LET name == Last(path)
        dots == {k \in 1..Len(name) : name[k] = "."}
    IN IF dots # {} /\ Max(dots) > 1 /\ Max(dots) < Len(name)
       THEN SubSeq(name, Max(dots), Len(name))
       ELSE <<>>

\* os.path.normpath of an absolute path: ".." steps collapsed lexically
RECURSIVE NormFrom(_, _)
NormFrom(acc, parts) ==
    IF parts = <<>> THEN acc
    ELSE IF Head(parts) = <<".", ".">> THEN NormFrom(Parent(acc), Tail(parts))
    ELSE NormFrom(Append(acc, Head(parts)), Tail(parts))
normpath(path) == NormFrom(<<>>, path)

\* relpath without the ".." steps that lead up from start
relpath_noup(path, start) ==
    LET p == normpath(path)
        st == normpath(start)
        common == Max({n \in 0..Len(st) : n <= Len(p) /\ SubSeq(p, 1, n) = SubSeq(st, 1, n)})
    IN SubSeq(p, common + 1, Len(p))

\* os.path.relpath(path, start) of two absolute paths, as a list of parts
relpath(path, start) ==
    LET p == normpath(path)
        st == normpath(start)
        common == Max({n \in 0..Len(st) : n <= Len(p) /\ SubSeq(p, 1, n) = SubSeq(st, 1, n)})
    IN [k \in 1..(Len(st) - common) |-> <<".", ".">>] \o SubSeq(p, common + 1, Len(p))

\* Path(base / parts).exists(): the walk the kernel makes from directory base,
\* every step taken from an existing directory
RECURSIVE Walk(_, _, _, _)
Walk(F, D, cur, parts) ==
    IF parts = <<>> THEN cur \in D \/ cur \in DOMAIN F
    ELSE /\ cur \in D
         /\ Walk(F, D, IF Head(parts) = <<".", ".">> THEN Parent(cur) ELSE Append(cur, Head(parts)),
                 Tail(parts))
exists(F, D, base, parts) == Walk(F, D, base, parts)

\* ---------------------------------------------------------- adjust_includes
\* _adjust(m) for one match: the path that replaces the captured fpath.
\* F, D: the file system when adjust_includes reads the file.
fpath_adj(F, D, fname, basepath, fpath) ==
    IF fpath[1] = "/" \/ exists(F, D, Parent(fname), Parts(fpath))
    THEN fpath
    ELSE LET rel == relpath(basepath \o Parts(fpath), Parent(fname))
         IN IF rel = <<>> THEN <<".">> ELSE Join(rel)

\* the text _adjust returns for a match: f".. {directive}:: {fpath_adj}"
_adjust(F, D, fname, basepath, content, m) ==
    <<".", ".", " ">> \o m.directive \o <<":", ":", " ">>
    \o fpath_adj(F, D, fname, basepath, SubSeq(content, m.gs, m.end))

\* the suffix test left out: every file is processed
IsRst_any(fname) == TRUE

\* fname.suffix != ".rst": return
IsRst(fname) == Suffix(fname) = <<".", "r", "s", "t">>

\* the result of re.subn for the matches ms of content: the new text, the
\* number of substitutions made and, for the properties, each match
Substituted(F, D, fname, basepath, content, ms) ==
    Only({[content_adj |-> Substitute(content, ms, repl, 1, 1),
           modified |-> Len(ms),
           refs |-> [k \in 1..Len(ms) |->
                       [fpath |-> SubSeq(content, ms[k].gs, ms[k].end),
                        fpath_adj |-> fpath_adj(F, D, fname, basepath,
                                                SubSeq(content, ms[k].gs, ms[k].end)),
                        matched |-> SubSeq(content, ms[k].start, ms[k].end),
                        replaced |-> repl[k]]]] :
          repl \in {[k \in 1..Len(ms) |-> _adjust(F, D, fname, basepath, content, ms[k])]}})

\* re.subn(pattern, _adjust, content)
subn(F, D, fname, basepath, directives, content) ==
    Only({Substituted(F, D, fname, basepath, content, ms) :
          ms \in {finditer(content, 1, directives)}})

\* Whether adjust_includes writes the file back: "if modified:"
WritesBack(r) == r.modified > 0

\* the exception open(fname, "r+") ends with, "none" if it opens the file
open_error(F, D, fname) ==
    IF fname \in DOMAIN F THEN "none"
    ELSE IF fname \in D THEN "IsADirectoryError"
    ELSE IF \E a \in Ancestors(fname) : a \in DOMAIN F THEN "NotADirectoryError"
    ELSE "FileNotFoundError"

\* adjust_includes(fname, basepath, directives, encoding) at time now: the
\* files afterwards, whether the file was written, the matches made, and the
\* exception it ends with
adjust_includes(F, D, fname, basepath, directives, now) ==
    IF ~IsRst(fname)
    THEN [fs |-> F, wrote |-> FALSE, refs |-> <<>>, raised |-> "none"]
    ELSE IF open_error(F, D, fname) # "none"
    THEN [fs |-> F, wrote |-> FALSE, refs |-> <<>>, raised |-> open_error(F, D, fname)]
    ELSE Only({[fs |-> IF WritesBack(r)
                       THEN [F EXCEPT ![fname] = [content |-> r.content_adj, mtime |-> now]]
                       ELSE F,
                wrote |-> WritesBack(r),
                refs |-> r.refs,
                raised |-> "none"] :
               r \in {subn(F, D, fname, basepath, directives, F[fname].content)}})

\* ----------------------------------------------------------------- the glob
\* the printable ASCII characters in code order, from " " (32) to "~" (126)
Ascii ==
    << " ", "!", "\"", "#", "$", "%", "&", "'", "(", ")", "*", "+", ",", "-", ".", "/",
       "0", "1", "2", "3", "4", "5", "6", "7", "8", "9", ":", ";", "<", "=", ">", "?",
       "@", "A", "B", "C", "D", "E", "F", "G", "H", "I", "J", "K", "L", "M", "N", "O",
       "P", "Q", "R", "S", "T", "U", "V", "W", "X", "Y", "Z", "[", "\\", "]", "^", "_",
       Backquote, "a", "b", "c", "d", "e", "f", "g", "h", "i", "j", "k", "l", "m", "n", "o",
       "p", "q", "r", "s", "t", "u", "v", "w", "x", "y", "z", "{", "|", "}", "~" >>
Ord(c) ==
    IF c = "\t" THEN 9 ELSE IF c = "\n" THEN 10
    ELSE 31 + Only({k \in 1..Len(Ascii) : Ascii[k] = c})

\* fnmatch.translate's scan of a pattern that starts with "[": where the
\* search for the closing "]" starts (after a "!" and after a "]" that
\* comes first), and the place of the closing "]", 0 if there is none
ClassFrom(pat) ==
    Only({j + (IF j <= Len(pat) /\ pat[j] = "]" THEN 1 ELSE 0) :
          j \in {2 + (IF Len(pat) >= 2 /\ pat[2] = "!" THEN 1 ELSE 0)}})
ClassEnd(pat) ==
    IF \E k \in ClassFrom(pat)..Len(pat) : pat[k] = "]"
    THEN Min({k \in ClassFrom(pat)..Len(pat) : pat[k] = "]"})
    ELSE 0

\* The chunks translate cuts the text stuff of a class into at the "-" that
\* make ranges: the chunk from place i, the next "-" sought from place k (a
\* "-" that is first, follows a range or is last makes no range).
HyphenFrom(stuff, k) ==
    IF \E h \in k..Len(stuff) : stuff[h] = "-"
    THEN Min({h \in k..Len(stuff) : stuff[h] = "-"})
    ELSE 0
RECURSIVE Chunks(_, _, _)
Chunks(stuff, i, k) ==
    IF HyphenFrom(stuff, k) = 0 \/ HyphenFrom(stuff, k) = Len(stuff)
    THEN <<SubSeq(stuff, i, Len(stuff))>>
    ELSE <<SubSeq(stuff, i, HyphenFrom(stuff, k) - 1)>>
         \o Chunks(stuff, HyphenFrom(stuff, k) + 1, HyphenFrom(stuff, k) + 3)

\* translate's removal of the empty ranges, from the last pair of chunks
\* (k, k + 1) to the first: the two ends of an empty range are dropped and
\* the two chunks made one
RECURSIVE MergeEmpty(_, _)
MergeEmpty(chunks, k) ==
    IF k = 0 THEN chunks
    ELSE IF Ord(Last(chunks[k])) > Ord(Head(chunks[k + 1]))
         THEN MergeEmpty(SubSeq(chunks, 1, k - 1)
                         \o <<Front(chunks[k]) \o Tail(chunks[k + 1])>>
                         \o SubSeq(chunks, k + 2, Len(chunks)),
                         k - 1)
    ELSE MergeEmpty(chunks, k - 1)

\* the class as the regular expression holds it: the characters of the
\* chunks (lit) with a range "-" between two chunks
RECURSIVE ClassTokens(_)
ClassTokens(chunks) ==
    IF chunks = <<>> THEN <<>>
    ELSE [n \in 1..Len(chunks[1]) |-> [c |-> chunks[1][n], lit |-> TRUE]]
         \o (IF Len(chunks) > 1
             THEN <<[c |-> "-", lit |-> FALSE]>> \o ClassTokens(Tail(chunks))
             ELSE <<>>)

\* c is one of the characters and ranges of the tokens from place p on
RECURSIVE InTokens(_, _, _)
InTokens(c, toks, p) ==
    IF p > Len(toks) THEN FALSE
    ELSE IF p + 2 <= Len(toks) /\ ~toks[p + 1].lit
         THEN \/ Ord(toks[p].c) <= Ord(c) /\ Ord(c) <= Ord(toks[p + 2].c)
              \/ InTokens(c, toks, p + 3)
    ELSE c = toks[p].c \/ InTokens(c, toks, p + 1)

\* c matches the tokens of a class: none match nothing, a "!" alone matches
\* every character, a "!" first negates
TokensMatch(c, toks) ==
    IF toks = <<>> THEN FALSE
    ELSE IF toks[1].lit /\ toks[1].c = "!"
         THEN Len(toks) = 1 \/ ~InTokens(c, toks, 2)
    ELSE InTokens(c, toks, 1)

\* c matches the class [stuff] of a pattern
InClass(c, stuff) ==
    TokensMatch(c, Only({ClassTokens(MergeEmpty(ch, Len(ch) - 1)) :
                         ch \in {Chunks(stuff, 1, IF stuff[1] = "!" THEN 3 ELSE 2)}}))

\* re.compile(fnmatch.translate(pat)).fullmatch(name): "*" any run of
\* characters, "?" any one, "[...]" one of a class, a "[" that is not closed
\* and any other character itself
RECURSIVE fnmatch(_, _)
fnmatch(name, pat) ==
    IF pat = <<>> THEN name = <<>>
    ELSE IF Head(pat) = "*"
         THEN \E n \in 0..Len(name) : fnmatch(SubSeq(name, n + 1, Len(name)), Tail(pat))
    ELSE IF Head(pat) = "?"
         THEN name # <<>> /\ fnmatch(Tail(name), Tail(pat))
    ELSE IF Head(pat) = "[" /\ ClassEnd(pat) # 0
         THEN /\ name # <<>>
              /\ InClass(Head(name), SubSeq(pat, 2, ClassEnd(pat) - 1))
              /\ fnmatch(Tail(name), SubSeq(pat, ClassEnd(pat) + 1, Len(pat)))
    ELSE /\ name # <<>>
         /\ Head(pat) = Head(name)
         /\ fnmatch(Tail(name), Tail(pat))

\* _is_wildcard_pattern
IsWildcard(part) == \E k \in 1..Len(part) : part[k] \in {"*", "?", "["}
Entries(F, D) == (D \ {<<>>}) \cup DOMAIN F
Children(F, D, dir) == {p \in Entries(F, D) : Parent(p) = dir}
\* a directory and every directory below it
Subdirs(D, dir) == {d \in D : IsPrefix(dir, d)}

\* The file or directory the kernel finds for a path that may hold ".."
\* parts, walking from cur with every step taken from an existing directory:
\* a set of one path, or of none when the path does not exist.
RECURSIVE ResolveFrom(_, _, _, _)
ResolveFrom(F, D, cur, parts) ==
    IF parts = <<>> THEN {cur} \cap (D \cup DOMAIN F)
    ELSE IF cur \notin D THEN {}
    ELSE ResolveFrom(F, D, IF Head(parts) = <<".", ".">> THEN Parent(cur)
                           ELSE Append(cur, Head(parts)),
                     Tail(parts))
Resolved(F, D, path) == ResolveFrom(F, D, <<>>, path)
is_dir(F, D, path) == Resolved(F, D, path) \cap D # {}

\* the parts Path.glob makes of a pattern: parse_parts' parts, and an empty
\* last part when the pattern ends with the separator
pattern_parts(pattern) ==
    Parts(pattern) \o (IF pattern # <<>> /\ Last(pattern) = "/" THEN << <<>> >> ELSE <<>>)

\* "**" within a longer part
HasDoubleStar(part) ==
    /\ part # <<"*", "*">>
    /\ \E k \in 1..(Len(part) - 1) : part[k] = "*" /\ part[k + 1] = "*"

\* the exception Path.glob(pattern) ends with before it yields anything,
\* "none" if there is none
glob_error(pattern) ==
    IF pattern = <<>> THEN "ValueError"
    ELSE IF Head(pattern) = "/" THEN "NotImplementedError"
    ELSE IF pattern_parts(pattern) = <<>> THEN "IndexError"
    ELSE IF Head(pattern_parts(pattern)) = <<>> THEN "AttributeError"
    ELSE IF \E k \in 1..Len(pattern_parts(pattern)) : HasDoubleStar(pattern_parts(pattern)[k])
         THEN "ValueError"
    ELSE "none"

\* pathlib's selectors applied to the pattern parts pp from directory parent:
\* an empty part or no part left (the path itself), "**" (the directory and
\* all below it), a wildcard part (the matching entries of the directory), a
\* precise part (the entry, if it exists); only directories are taken when
\* parts follow.  The paths keep the ".." parts of the pattern.
RECURSIVE select_from(_, _, _, _)
select_from(F, D, parent, pp) ==
    IF pp = <<>> \/ Head(pp) = <<>> THEN {parent}
    ELSE IF Head(pp) = <<"*", "*">>
         THEN UNION {select_from(F, D, parent \o SubSeq(d, Len(r) + 1, Len(d)), Tail(pp)) :
                     <<r, d>> \in {<<r, d>> \in Resolved(F, D, parent) \X D : IsPrefix(r, d)}}
    ELSE IF IsWildcard(Head(pp))
         THEN UNION {select_from(F, D, Append(parent, Last(c)), Tail(pp)) :
                     c \in {c \in UNION {Children(F, D, r) : r \in Resolved(F, D, parent)} :
                                /\ Tail(pp) # <<>> => c \in D
                                /\ fnmatch(Last(c), Head(pp))}}
    ELSE IF \/ is_dir(F, D, Append(parent, Head(pp)))
            \/ Tail(pp) = <<>> /\ Resolved(F, D, Append(parent, Head(pp))) # {}
         THEN select_from(F, D, Append(parent, Head(pp)), Tail(pp))
    ELSE {}

\* Path(dir).glob(pattern): the exception it raises, or the set of matches;
\* the order in which the directory scan yields them is the file system's.
glob(F, D, dir, pattern) ==
    IF glob_error(pattern) # "none" THEN [raised |-> glob_error(pattern), paths |-> {}]
    ELSE [raised |-> "none",
          paths |-> IF is_dir(F, D, dir) THEN select_from(F, D, dir, pattern_parts(pattern))
                    ELSE {}]

\* ------------------------------------------------------------ sync_contents
\* The configured patterns hold no ".." part, so every Copy Task's paths are
\* the kernel's own.
\* The Copy Tasks one src of the glob adds, in every order the scan may give:
\* a directory adds its files at any depth (src.glob("**/*") without the
\* directories), a file adds itself.
TasksOf(F, D, src, prefix_src) ==
    IF is_dir(F, D, src)
    THEN LET files == {f \in glob(F, D, src, <<"*", "*", "/", "*">>).paths : ~is_dir(F, D, f)}
         IN {[k \in 1..Cardinality(files) |-> [src |-> o[k], prefix_src |-> prefix_src]] :
             o \in Perms(files)}
    ELSE {<<[src |-> src, prefix_src |-> prefix_src]>>}

RECURSIVE TasksInOrder(_, _, _, _, _)
TasksInOrder(F, D, order, k, prefix_src) ==
    IF k > Len(order) THEN {<<>>}
    ELSE {h \o t : h \in TasksOf(F, D, order[k], prefix_src),
                   t \in TasksInOrder(F, D, order, k + 1, prefix_src)}

\* the lists one Content Entry (prefix_src, glob) may add to to_copy
EntryTasks(F, D, entry) ==
    UNION {TasksInOrder(F, D, o, 1, entry.prefix_src) :
           o \in Perms(glob(F, D, entry.prefix_src, entry.glob).paths)}

\* the first loop ends with an exception: the glob of some entry raises
GlobRaises(contents) ==
    \E k \in 1..Len(contents) : glob_error(contents[k].glob) # "none"

\* the lists to_copy may hold after the first loop, entries k.. of the
\* configuration taken in their order
RECURSIVE ToCopyLists(_, _, _, _)
ToCopyLists(F, D, contents, k) ==
    IF k > Len(contents) THEN {<<>>}
    ELSE {h \o t : h \in EntryTasks(F, D, contents[k]),
                   t \in ToCopyLists(F, D, contents, k + 1)}

\* dst = srcdir / src.relative_to(prefix_src)
relative_to(src, prefix_src) == SubSeq(src, Len(prefix_src) + 1, Len(src))
DstOf(dir, src, prefix_src) == dir \o relative_to(src, prefix_src)

\* newer with ">=" for ">"
newer_ge(F, D, src, dst) ==
    IF dst \in D THEN BOOLEAN
    ELSE {dst \notin DOMAIN F \/ F[src].mtime >= F[dst].mtime}

\* distutils' newer(source, target), which copy_file(update=True) asks: the
\* answers it may give.  The target is missing, or the source's mtime is
\* strictly greater; against a target that is a directory, whose mtime the
\* file system of the model does not hold, either answer.
newer(F, D, src, dst) ==
    IF dst \in D THEN BOOLEAN
    ELSE {dst \notin DOMAIN F \/ F[src].mtime > F[dst].mtime}

\* the file copy_file writes: dst, or the file of src's name in dst when dst
\* is a directory
dest_name(D, src, dst) == IF dst \in D THEN Append(dst, Last(src)) ELSE dst

\* _copy_file_contents that sets the times of an existing destination and
\* leaves its content
copy_file_contents_keep(F, D, src, dst) ==
    IF dst \in D \/ Parent(dst) \notin D
    THEN [fs |-> F, raised |-> "DistutilsFileError"]
    ELSE [fs |-> [p \in DOMAIN F \cup {dst} |->
                     IF p = dst
                     THEN [content |-> IF dst \in DOMAIN F THEN F[dst].content
                                       ELSE F[src].content,
                           mtime |-> F[src].mtime]
                     ELSE F[p]],
          raised |-> "none"]

\* _copy_file_contents and the times that follow it: dst holds the content
\* and the mtime of src; a dst that is a directory cannot be deleted, a dst
\* in no directory cannot be created
copy_file_contents(F, D, src, dst) ==
    IF dst \in D \/ Parent(dst) \notin D
    THEN [fs |-> F, raised |-> "DistutilsFileError"]
    ELSE [fs |-> [p \in DOMAIN F \cup {dst} |->
                     IF p = dst THEN [content |-> F[src].content, mtime |-> F[src].mtime]
                     ELSE F[p]],
          raised |-> "none"]

\* copy_file(src, dst, update=True): the outcomes it may have, each the
\* files afterwards, the (dest_name, copied) it returns and the exception it
\* ends with.  The source must be a regular file; the file is copied if
\* newer() says so; preserve_times being the default, the mtime is copied too.
copy_file(F, D, src, dst) ==
    IF src \notin DOMAIN F
    THEN {[fs |-> F, dst |-> dst, copied |-> FALSE, raised |-> "DistutilsFileError"]}
    ELSE {IF yes
          THEN [fs |-> copy_file_contents(F, D, src, dest_name(D, src, dst)).fs,
                dst |-> dest_name(D, src, dst),
                copied |-> copy_file_contents(F, D, src, dest_name(D, src, dst)).raised = "none",
                raised |-> copy_file_contents(F, D, src, dest_name(D, src, dst)).raised]
          ELSE [fs |-> F, dst |-> dest_name(D, src, dst), copied |-> FALSE, raised |-> "none"] :
          yes \in newer(F, D, src, dest_name(D, src, dst))}

\* if not dst.parent.exists(): dst.parent.mkdir(parents=True), for the
\* directory dir: the directories afterwards and the exception it ends with.
\* Nothing is made when dir exists, be it a regular file; mkdir raises when a
\* regular file is on the way.
mkdir_parents(F, D, dir) ==
    IF dir \in D \/ dir \in DOMAIN F THEN [dirs |-> D, raised |-> "none"]
    ELSE IF \E a \in Ancestors(dir) : a \in DOMAIN F
         THEN [dirs |-> D, raised |-> "NotADirectoryError"]
    ELSE [dirs |-> D \cup Ancestors(dir) \cup {dir}, raised |-> "none"]

\* what an iteration that ends with an exception before adjust_includes, or
\* that copies nothing, leaves
Unadjusted(F, D, task, dst, target, raised) ==
    [fs |-> F, dirs |-> D, dst |-> dst, target |-> target, copied |-> FALSE,
     adjusted |-> FALSE, wrote |-> FALSE, refs |-> <<>>,
     before |-> IF target \in DOMAIN F THEN F[target].content ELSE <<>>,
     raised |-> raised]

\* One iteration of sync_contents' second loop on a Copy Task at time now, the
\* outcomes it may have: the destination's directories are made, copy_file
\* copies if the source is newer, and adjust_includes runs on dst if
\* copy_file copied.  target is the file copy_file names, raised the
\* exception the iteration ends with.
copy_task(F, D, task, dir, directives, now) ==
    LET src == task.src
        dst == DstOf(dir, src, task.prefix_src)
        mk == mkdir_parents(F, D, Parent(dst))
    IN IF mk.raised # "none"
       THEN {Unadjusted(F, D, task, dst, dst, mk.raised)}
       ELSE {IF ~c.copied
             THEN Unadjusted(F, mk.dirs, task, dst, c.dst, c.raised)
             ELSE Only({[fs |-> adj.fs, dirs |-> mk.dirs, dst |-> dst, target |-> c.dst,
                         copied |-> TRUE, adjusted |-> TRUE,
                         wrote |-> adj.wrote, refs |-> adj.refs,
                         before |-> F[src].content, raised |-> adj.raised] :
                        adj \in {adjust_includes(c.fs, mk.dirs, dst, Parent(src),
                                                 directives, now)}}) :
             c \in copy_file(F, mk.dirs, src, dst)}

\* ------------------------------------------------------------- the universe
\* app.srcdir, /b, and the external directories /e and /f
srcdir == << <<"b">> >>
ExtE == << <<"e">> >>
ExtF == << <<"f">> >>
n_g == <<"g">>
n_s == <<"s">>
n_i_rst == <<"i", ".", "r", "s", "t">>
n_a_rst == <<"a", ".", "r", "s", "t">>
n_c_txt == <<"c", ".", "t", "x", "t">>
EI == ExtE \o <<n_g, n_i_rst>>            \* /e/g/i.rst
EA == ExtE \o <<n_g, n_s, n_a_rst>>       \* /e/g/s/a.rst
EC == ExtE \o <<n_g, n_c_txt>>            \* /e/g/c.txt
FI == ExtF \o <<n_g, n_i_rst>>            \* /f/g/i.rst
BI == srcdir \o <<n_g, n_i_rst>>          \* /b/g/i.rst
BA == srcdir \o <<n_g, n_s, n_a_rst>>     \* /b/g/s/a.rst
BC == srcdir \o <<n_g, n_c_txt>>          \* /b/g/c.txt
BG == srcdir \o <<n_g>>                   \* /b/g

Directive(d) == <<".", ".", " ">> \o d \o <<":", ":">>
d_include == DEFAULT_DIRECTIVES[3]
d_image == DEFAULT_DIRECTIVES[2]
d_note == <<"n", "o", "t", "e">>
t_s_a_rst == <<"s", "/">> \o n_a_rst      \* s/a.rst
t_abs == <<"/", "x">>                     \* /x

\* the contents /e/g/i.rst takes in the builds
TextRel == Directive(d_include) \o <<" ">> \o t_s_a_rst \o <<"\n">>
TextNone == <<"h", "i", "\n">>
TextAbs == Directive(d_image) \o <<" ">> \o t_abs \o <<"\n">>
TextWs == Directive(d_image) \o <<" ", " ">> \o t_abs \o <<"\n">>
          \o Directive(d_include) \o <<"\n">> \o t_s_a_rst \o <<"\n">>
BuildTexts == {TextRel, TextNone, TextAbs, TextWs}

\* /e/g/c.txt is no .rst file and holds a directive; /f/g/i.rst, /e/g/s/a.rst
\* and the files the destination holds before the first build hold none
TextC == Directive(d_include) \o <<" ">> \o t_s_a_rst \o <<"\n">>
TextF == <<"F", "\n">>
TextA == <<"A", "\n">>
TextOld == <<"o", "l", "d", "\n">>

\* external_content_contents of the builds
g_rst == <<"g", "/", "*", ".", "r", "s", "t">>            \* g/*.rst
all_rst == <<"*", "*", "/", "*", ".", "r", "s", "t">>     \* **/*.rst
g_dirs == <<"g", "/", "*", "/">>                          \* g/*/ (directories only)
g_class == <<"g", "/", "[", "!", "a", "-", "c", "]", "*">>  \* g/[!a-c]*
Configs ==
    { << [prefix_src |-> ExtE, glob |-> g_rst] >>,
      << [prefix_src |-> ExtE, glob |-> n_g] >>,
      << [prefix_src |-> ExtE, glob |-> g_rst], [prefix_src |-> ExtF, glob |-> g_rst] >>,
      << [prefix_src |-> ExtF, glob |-> g_rst], [prefix_src |-> ExtE, glob |-> all_rst] >>,
      << [prefix_src |-> ExtE, glob |-> g_dirs] >>,
      << [prefix_src |-> ExtE, glob |-> g_class] >>,
      << [prefix_src |-> ExtE, glob |-> g_rst], [prefix_src |-> ExtF, glob |-> <<>>] >> }

File(c, m) == [content |-> c, mtime |-> m]
DirsOf(files) == UNION {Ancestors(p) : p \in files}

\* The files before a build: the external trees, and the files pre that the
\* destination already holds
Tree(text, me, mf, pre) ==
    [p \in {EI, EA, EC, FI} \cup DOMAIN pre |->
        IF p \in DOMAIN pre THEN pre[p]
        ELSE IF p = EI THEN File(text, me)
        ELSE IF p = FI THEN File(TextF, mf)
        ELSE IF p = EA THEN File(TextA, 1)
        ELSE File(TextC, 1)]

NoFiles == [p \in {} |-> File(<<>>, 0)]

\* What the destination holds before the first build, files and empty
\* directories: nothing, /b/g/i.rst and /b/g/s/a.rst of an earlier build or
\* of the project, a directory where a build puts a file (/b/g/c.txt,
\* /b/g/i.rst, the latter empty or with a file i.rst in it), or a file where
\* a build needs a directory (/b/g).
PreStates ==
    {[files |-> [p \in S |-> IF p = BI THEN File(TextOld, m) ELSE File(TextOld, 0)],
      dirs |-> {}] :
        S \in SUBSET {BI, BA}, m \in 0..MaxMtime}
    \cup {[files |-> NoFiles, dirs |-> {BC}],
          [files |-> NoFiles, dirs |-> {BI}],
          [files |-> [p \in {Append(BI, n_i_rst)} |-> File(TextOld, MaxMtime)], dirs |-> {}],
          [files |-> [p \in {BG} |-> File(TextOld, 0)], dirs |-> {}]}

\* the directories of a tree: those of its files, and the empty ones
AllDirs(files, empty) ==
    DirsOf(files) \cup empty \cup UNION {Ancestors(d) : d \in empty} \cup {srcdir}

NoLast == [src |-> <<>>, prefix_src |-> <<>>, dst |-> <<>>, target |-> <<>>,
           existed |-> FALSE, pre_mtime |-> 0, copied |-> FALSE, adjusted |-> FALSE,
           wrote |-> FALSE, refs |-> <<>>, before |-> <<>>, raised |-> "none"]

\* -------------------------------------------------------- the state machine
VARIABLES
    fs,         \* the regular files: path -> [content, mtime]
    dirs,       \* the directories
    clock,      \* the time, in seconds
    contents,   \* app.config.external_content_contents
    pc,         \* "idle": no build is running; "copy": in sync_contents' second loop;
                \* "raised": sync_contents ended with an exception
    to_copy,    \* sync_contents' list of Copy Tasks
    idx,        \* the position of the second loop in to_copy
    run,        \* builds completed
    edited,     \* an external source changed since the last build began
    quiet,      \* this build began after a completed one with no change between
    start,      \* fs when this build began
    start_dirs, \* dirs when this build began
    writes,     \* the destination files this build has written
    origin,     \* destination path -> the source whose copy wrote it last
    last        \* what the second loop's last iteration did

vars == <<fs, dirs, clock, contents, pc, to_copy, idx, run, edited, quiet,
          start, start_dirs, writes, origin, last>>

directives == DEFAULT_DIRECTIVES

\* Before the first build, at time MaxMtime - 1.  A file's mtime may be up to
\* a second later than that (a clock that is off, an unpacked archive).
Init ==
    /\ \E text \in BuildTexts, me \in 1..MaxMtime, mf \in 1..MaxMtime, pre \in PreStates :
          /\ fs = Tree(text, me, mf, pre.files)
          /\ dirs = AllDirs(DOMAIN fs, pre.dirs)
    /\ clock = MaxMtime - 1
    /\ contents \in Configs
    /\ pc = "idle"
    /\ to_copy = <<>>
    /\ idx = 1
    /\ run = 0
    /\ edited = FALSE
    /\ quiet = FALSE
    /\ start = fs
    /\ start_dirs = dirs
    /\ writes = {}
    /\ origin = <<>>
    /\ last = NoLast

\* sync_contents' first loop, on "builder-inited": to_copy from the globs
Collect ==
    /\ pc = "idle"
    /\ run < MaxRuns
    /\ IF GlobRaises(contents)
       THEN /\ pc' = "raised"
            /\ UNCHANGED <<to_copy, idx, quiet, edited, start, start_dirs, writes, last>>
       ELSE /\ to_copy' \in ToCopyLists(fs, dirs, contents, 1)
            /\ idx' = 1
            /\ pc' = "copy"
            /\ quiet' = (run >= 1 /\ ~edited)
            /\ edited' = FALSE
            /\ start' = fs
            /\ start_dirs' = dirs
            /\ writes' = {}
            /\ last' = NoLast
    /\ UNCHANGED <<fs, dirs, clock, contents, run, origin>>

\* one iteration of sync_contents' second loop; an exception ends the build
CopyTask ==
    /\ pc = "copy"
    /\ idx <= Len(to_copy)
    /\ \E task \in {to_copy[idx]}, r \in copy_task(fs, dirs, to_copy[idx], srcdir, directives, clock) :
          /\ fs' = r.fs
          /\ dirs' = r.dirs
          /\ writes' = IF r.copied THEN writes \cup {r.target} ELSE writes
          /\ origin' = IF r.copied
                       THEN [p \in DOMAIN origin \cup {r.target} |->
                                IF p = r.target THEN task.src ELSE origin[p]]
                       ELSE origin
          /\ last' = [src |-> task.src, prefix_src |-> task.prefix_src, dst |-> r.dst,
                      target |-> r.target,
                      existed |-> r.dst \in DOMAIN fs,
                      pre_mtime |-> IF r.dst \in DOMAIN fs THEN fs[r.dst].mtime ELSE 0,
                      copied |-> r.copied, adjusted |-> r.adjusted, wrote |-> r.wrote,
                      refs |-> r.refs, before |-> r.before, raised |-> r.raised]
          /\ pc' = IF r.raised = "none" THEN "copy" ELSE "raised"
          /\ idx' = IF r.raised = "none" THEN idx + 1 ELSE idx
    /\ UNCHANGED <<clock, contents, to_copy, run, edited, quiet, start, start_dirs>>

\* sync_contents returns; its locals are gone
Finish ==
    /\ pc = "copy"
    /\ idx > Len(to_copy)
    /\ pc' = "idle"
    /\ run' = run + 1
    /\ to_copy' = <<>>
    /\ idx' = 1
    /\ last' = NoLast
    /\ writes' = {}
    /\ start' = fs
    /\ start_dirs' = dirs
    /\ UNCHANGED <<fs, dirs, clock, contents, edited, quiet, origin>>

\* between two builds, dt seconds later, /e/g/i.rst is edited
EditSource ==
    /\ pc = "idle"
    /\ run >= 1
    /\ run < MaxRuns
    /\ ~edited
    /\ \E text \in BuildTexts \ {fs[EI].content}, dt \in {0, 1} :
          /\ clock' = clock + dt
          /\ fs' = [fs EXCEPT ![EI] = File(text, clock')]
    /\ edited' = TRUE
    /\ UNCHANGED <<dirs, contents, pc, to_copy, idx, run, quiet, start, start_dirs, writes,
                   origin, last>>

Next == Collect \/ CopyTask \/ Finish \/ EditSource

Spec == Init /\ [][Next]_vars

\* ------------------------------------------- the rewrite on a family of texts
\* The texts "<head>.. <d>::<ws><path><tail>": every run of up to MaxWs
\* whitespace characters after "::", paths that are relative, absolute, with
\* ".." steps, present at the destination or not, and what may follow a path.
WsRuns == UNION {[1..n -> Whitespace] : n \in 0..MaxWs}
PathArgs ==
    { t_s_a_rst,                                   \* s/a.rst
      t_abs,                                       \* /x
      <<".", ".", "/", "g", "/">> \o n_c_txt,      \* ../g/c.txt
      <<"x", "/", ".", ".", "/">> \o t_s_a_rst,    \* x/../s/a.rst
      n_i_rst,                                     \* i.rst, the file itself
      <<".", ".", "/", ".", ".", "/", ".", ".", "/", "y">> }   \* ../../../y
Tails == { <<>>, <<"\n">>, <<Backquote, "q">>,
           <<" ", "\n">> \o Directive(d_image) \o <<" ">> \o t_abs }
RewriteTexts ==
    {Directive(d) \o ws \o path \o tail :
        d \in {d_include, d_note}, ws \in WsRuns, path \in PathArgs, tail \in Tails}

\* g/?.*: /e/g/i.rst and /e/g/c.txt
g_files == <<"g", "/", "?", ".", "*">>

\* Before the first build: /e/g/i.rst and /e/g/c.txt hold the same text of the
\* family, and the destination holds /b/g/s/a.rst, a directory /b/g/c.txt or
\* nothing
InitRewrite ==
    /\ \E text \in RewriteTexts, pre \in {<<{}, {}>>, <<{BA}, {}>>, <<{}, {BC}>>} :
          /\ fs = [p \in {EI, EA, EC} \cup pre[1] |->
                      IF p \in {EI, EC} THEN File(text, 1)
                      ELSE IF p = EA THEN File(TextA, 1)
                      ELSE File(TextOld, 0)]
          /\ dirs = AllDirs(DOMAIN fs, pre[2])
    /\ clock = MaxMtime
    /\ contents = << [prefix_src |-> ExtE, glob |-> g_files] >>
    /\ pc = "idle"
    /\ to_copy = <<>>
    /\ idx = 1
    /\ run = 0
    /\ edited = FALSE
    /\ quiet = FALSE
    /\ start = fs
    /\ start_dirs = dirs
    /\ writes = {}
    /\ origin = <<>>
    /\ last = NoLast

NextRewrite == Collect \/ CopyTask \/ Finish

SpecRewrite == InitRewrite /\ [][NextRewrite]_vars

\* ------------------------------------------------------------ the properties
\* the second loop has processed every Copy Task of this build
AllProcessed == pc = "copy" /\ idx > Len(to_copy)
Tasks == {to_copy[k] : k \in 1..Len(to_copy)}
\* the destination the specification gives a Copy Task: the source root
\* joined with the source's location relative to its entry's base directory
ExpectedDst(task) == srcdir \o SubSeq(task.src, Len(task.prefix_src) + 1, Len(task.src))
RstSuffix == <<".", "r", "s", "t">>
HasDirective(text) == finditer(text, 1, directives) # <<>>
Collides(t, u) == ExpectedDst(t) = ExpectedDst(u) /\ t.src # u.src
IsRelative(fpath) == fpath[1] # "/"
\* the file a path text names from a directory, ".." steps collapsed
Target(dir, fpath) == normpath(dir \o Parts(fpath))
ExistsAtDst(ref) == exists(fs, dirs, Parent(last.dst), Parts(ref.fpath))
Refs == {last.refs[k] : k \in 1..Len(last.refs)}
\* where copy_file puts a Copy Task's file: at the destination, or under the
\* source's name in the destination when that path is a directory
Landing(t) == dest_name(dirs, t.src, ExpectedDst(t))
\* no Copy Task of another source writes at or below the path dst: none has
\* its destination there, and none has the directory of dst as destination
\* and the file name of dst as its source's
Alone(t, dst) ==
    \A u \in Tasks :
        u.src # t.src => /\ ~IsPrefix(dst, ExpectedDst(u))
                         /\ Append(ExpectedDst(u), Last(u.src)) # dst
\* adjust_includes leaves the copy of text at dst as it is: dst is no .rst
\* file, or every match it makes in text has one space after "::" and then a
\* path that is absolute or existed from the directory of dst as the build
\* began
KeptAsCopied(dst, text) ==
    \/ ~IsRst(dst)
    \/ \A k \in 1..Len(finditer(text, 1, directives)) :
          LET m == finditer(text, 1, directives)[k]
          IN /\ SubSeq(text, m.start, m.gs - 1) = Directive(m.directive) \o <<" ">>
             /\ \/ text[m.gs] = "/"
                \/ exists(start, start_dirs, Parent(dst), Parts(SubSeq(text, m.gs, m.end)))

C2_Claim == (pc = "copy" /\ quiet) => (writes = {} /\ fs = start)

\* two paths name the same file: they are one path, or the first is the copy
\* a Copy Task made of the second
SameFile(p, q) == p = q \/ (p \in DOMAIN origin /\ origin[p] = q)

\* C3 as stated: every relative path of a matched directive of a copied .rst
\* file names, from the destination's directory, the file it named from the
\* source's directory (or the copy the build made of that file).
C3_Original ==
    \A ref \in Refs :
        IsRelative(ref.fpath) =>
            SameFile(Target(Parent(last.dst), ref.fpath_adj),
                     Target(Parent(last.src), ref.fpath))

\* C3 amended: a relative path that names nothing from the destination's
\* directory when adjust_includes runs is rewritten, and the rewritten path
\* names from the destination's directory the file the original named from
\* the source's directory.
C3_RoundTrip ==
    \A ref \in Refs :
        (IsRelative(ref.fpath) /\ ~ExistsAtDst(ref)) =>
            Target(Parent(last.dst), ref.fpath_adj) = Target(Parent(last.src), ref.fpath)

\* a relative path that named nothing at the destination was rewritten
C3_Witness ==
    \E ref \in Refs :
        /\ IsRelative(ref.fpath)
        /\ ~ExistsAtDst(ref)
        /\ ref.fpath_adj # ref.fpath
        /\ last.wrote

\* C4 as stated: a matched directive whose path is absolute or names an
\* existing file from the destination's directory is replaced by the very
\* text it matched, whatever whitespace follows "::".
C4_Claim ==
    \A ref \in Refs :
        (~IsRelative(ref.fpath) \/ ExistsAtDst(ref)) => ref.replaced = ref.matched

\* C5: an iteration whose destination exists and is not older than the source
\* leaves the destination as it is and does not call adjust_includes; an
\* iteration calls adjust_includes only when copy_file has just written the
\* source's content to the file it names.
C5_SkipIfUnchanged ==
    [][(pc = "copy" /\ idx <= Len(to_copy)) =>
        LET src == to_copy[idx].src
            dst == ExpectedDst(to_copy[idx])
            fresh == dst \in DOMAIN fs /\ fs[dst].mtime >= fs[src].mtime
        IN /\ fresh => (fs' = fs /\ writes' = writes /\ ~last'.adjusted /\ ~last'.wrote)
           /\ last'.adjusted => /\ ~fresh
                                /\ last'.copied
                                /\ last'.target \in writes'
                                /\ fs'[last'.target].content = fs[src].content \/ last'.wrote
                                /\ last'.before = fs[src].content
      ]_vars

\* an iteration has skipped a destination no older than its source
C5_Witness ==
    /\ last.dst # <<>>
    /\ last.existed
    /\ last.pre_mtime >= fs[last.src].mtime
    /\ ~last.copied
    /\ ~last.adjusted

\* C6: a copied file whose suffix is not .rst holds, after the rewrite pass,
\* the content the copy gave it, whatever directives it holds.
C6_NonRstUntouched ==
    (last.copied /\ Suffix(last.dst) # RstSuffix) =>
        (fs[last.target].content = fs[last.src].content /\ ~last.wrote /\ last.refs = <<>>)

\* a file that is no .rst file and holds a directive of the configured names
\* has been copied
C6_Witness ==
    /\ last.copied
    /\ Suffix(last.dst) # RstSuffix
    /\ HasDirective(fs[last.target].content)

\* C7 as stated: in a build, every file written is at the destination of a
\* Copy Task, no file is deleted, and every other file is left as it is.
C7_Claim ==
    [][pc = "copy" =>
        /\ \A p \in DOMAIN fs : p \in DOMAIN fs'
        /\ dirs \subseteq dirs'
        /\ \A p \in DOMAIN fs' :
              (p \notin DOMAIN fs \/ fs'[p] # fs[p]) => \E t \in Tasks : p = ExpectedDst(t)
      ]_vars

\* C8 as stated: adjust_includes writes the file only if a substitution
\* changed the text.
C8_Claim == last.wrote => fs[last.dst].content # last.before

\* C9 as stated: a match never spans a line break, and the captured path
\* holds neither a backquote nor a newline.
C9_Claim ==
    \A ref \in Refs :
        /\ \A k \in 1..Len(ref.matched) : ref.matched[k] # "\n"
        /\ \A k \in 1..Len(ref.fpath) : ref.fpath[k] \notin {Backquote, "\n"}

\* C10 as stated: when two Copy Tasks map different sources to one
\* destination, after the build the destination holds the later task's copy.
C10_Original ==
    AllProcessed =>
        \A i, j \in 1..Len(to_copy) :
            (i < j /\ Collides(to_copy[i], to_copy[j])
                   /\ \A k \in (j + 1)..Len(to_copy) : ExpectedDst(to_copy[k]) # ExpectedDst(to_copy[j]))
            => /\ ExpectedDst(to_copy[j]) \in DOMAIN origin
               /\ origin[ExpectedDst(to_copy[j])] = to_copy[j].src

\* C10 amended: a Copy Task whose destination an earlier Copy Task of the
\* build has from another source overwrites the file there (the file of the
\* source's name inside it when the destination is a directory) exactly when
\* its source's mtime is strictly greater than the mtime that file then has;
\* otherwise the file keeps what it held.
C10_LaterWinsIfNewer ==
    [][(pc = "copy" /\ idx <= Len(to_copy)
        /\ \E i \in 1..(idx - 1) : Collides(to_copy[i], to_copy[idx])) =>
        LET src == to_copy[idx].src
            dst == Landing(to_copy[idx])
        IN /\ dst \in DOMAIN fs
           /\ IF fs[src].mtime > fs[dst].mtime
              THEN origin'[dst] = src /\ last'.before = fs[src].content
              ELSE fs'[dst] = fs[dst] /\ origin' = origin
      ]_vars

\* the later of two colliding Copy Tasks was processed and the destination
\* still holds the earlier task's copy
C10_Witness ==
    /\ pc = "copy"
    /\ idx > 1
    /\ \E i \in 1..(idx - 2) : Collides(to_copy[i], to_copy[idx - 1])
    /\ last.src = to_copy[idx - 1].src
    /\ ~last.copied
    /\ last.dst \in DOMAIN origin
    /\ origin[last.dst] # last.src
    /\ last.dst \in writes

====
